---- MODULE Spec2Model ----
(***************************************************************************)
(* Model of the dashboard metrics of src/app.py: the bookings table, the   *)
(* admin operations that change it, and get_dashboard_data, which turns    *)
(* the table and a date range into the metrics report.                     *)
(*                                                                         *)
(* Number representation.  Python floats are modelled as exact fixed-point *)
(* integers:                                                               *)
(*   - a revenue stored in a row is a number of mills (1/1000 of the       *)
(*     currency unit), so that amounts below one cent exist;               *)
(*   - a figure the code rounds with round(x, 2) is a number of cents;     *)
(*   - a figure the code rounds with round(x, 1) is a number of tenths.    *)
(* round() is modelled as round-half-to-even, which is what Python's       *)
(* round does on the exact value; binary representation error of floats is *)
(* not modelled.                                                           *)
(* A date is the number of days since Epoch (date.toordinal, shifted).     *)
(***************************************************************************)
EXTENDS Integers, Sequences, FiniteSets, Bags, TLC

\* ------------------------------------------------------------------ bounds
\* at most MaxRows rows in the bookings table
MaxRows == 2
\* dates are Epoch + 0 .. Epoch + MaxDay
MaxDay == 2

\* ------------------------------------------------------------ enumerations
\* class ServiceModality, in definition (iteration) order
ServiceModality == <<"Strength", "Pilates", "Yoga", "Physiotherapy", "Hyrox">>

\* class BookingStatus
BookingStatus == <<"Upcoming", "Active", "Completed", "Cancelled">>

\* class Space, in definition (iteration) order
Space == <<"Palace 1", "Palace 2">>

\* BookingStatus.CANCELLED
CANCELLED == "Cancelled"

\* DAILY_OPERATING_MINUTES, minutes a space can be booked per day
DAILY_OPERATING_MINUTES == 840

Members(enum) == {enum[i] : i \in 1..Len(enum)}

\* ------------------------------------------------------------------ inputs
\* the dates a booking or a request can carry
Dates == 0..MaxDay

\* the values the admin forms are given: two statuses, and three offers
\* <<service, duration_minutes, revenue in mills>>: 400.00 for an hour of
\* Yoga and 412.50 for 45 minutes of Pilates (the rates of seed_sample_data),
\* and an amount below a cent, 0.004; every enumeration is still reported
\* in full
InputStatuses == {"Completed", CANCELLED}
InputOffers ==
    {<<"Yoga", 60, 400000>>, <<"Pilates", 45, 412500>>, <<"Pilates", 30, 4>>}

\* the columns of class Booking that get_dashboard_data reads
Booking ==
    {[service |-> o[1], space |-> sp, booking_date |-> d,
      duration_minutes |-> o[2], status |-> st, revenue |-> o[3]] :
        o \in InputOffers, sp \in Members(Space), d \in Dates,
        st \in InputStatuses}

\* ----------------------------------------------------------- Python values
\* round(num / den, k) for den > 0, as a count of units of 10^-k: the integer
\* nearest to num / den, a tie going to the even one
round(num, den) ==
    LET q == num \div den
        r == num % den
    IN  IF 2 * r < den THEN q
        ELSE IF 2 * r > den THEN q + 1
        ELSE IF q % 2 = 0 THEN q ELSE q + 1

\* sum(xs) of a list of numbers
RECURSIVE sum(_)
sum(xs) == IF xs = <<>> THEN 0 ELSE Head(xs) + sum(Tail(xs))

\* [b.duration_minutes for b in bs], [b.revenue for b in bs]
durations(bs) == [i \in 1..Len(bs) |-> bs[i].duration_minutes]
revenues(bs) == [i \in 1..Len(bs) |-> bs[i].revenue]

\* datetime.date: year, month, day of Epoch + n (timedelta(days=1) steps)
Epoch == <<2024, 2, 28>>

is_leap(y) == y % 4 = 0 /\ (y % 100 # 0 \/ y % 400 = 0)

days_in_month(y, m) ==
    IF m = 2 THEN (IF is_leap(y) THEN 29 ELSE 28)
    ELSE IF m \in {4, 6, 9, 11} THEN 30 ELSE 31

RECURSIVE ymd(_)
ymd(n) ==
    IF n = 0 THEN Epoch
    ELSE LET p == ymd(n - 1)
         IN  IF p[3] < days_in_month(p[1], p[2]) THEN <<p[1], p[2], p[3] + 1>>
             ELSE IF p[2] < 12 THEN <<p[1], p[2] + 1, 1>>
             ELSE <<p[1] + 1, 1, 1>>

\* strftime("%Y-%m-%d"): the zero-padded fields year, month, day; the order
\* of these strings is the lexicographic order of the triples
strftime_Ymd(n) == ymd(n)

\* strftime("%a"); Epoch is a Wednesday
strftime_a(n) ==
    <<"Mon", "Tue", "Wed", "Thu", "Fri", "Sat", "Sun">>[((n + 2) % 7) + 1]

\* ------------------------------------------------------------ the query
\* query_filter without the status condition
query_filter_any_status(b, start, end) ==
    /\ b.booking_date >= start
    /\ b.booking_date <= end

\* query_filter without the upper end of the range
query_filter_open_end(b, start, end) ==
    /\ b.booking_date >= start
    /\ b.status # CANCELLED

\* the filter of the query: in the date range and not cancelled
query_filter(b, start, end) ==
    /\ b.booking_date >= start
    /\ b.booking_date <= end
    /\ b.status # CANCELLED

\* Query.all(): the rows as a list (the order is the database's)
RECURSIVE all(_)
all(rows) ==
    IF BagToSet(rows) = {} THEN <<>>
    ELSE LET r == CHOOSE x \in BagToSet(rows) : TRUE
         IN  <<r>> \o all(rows (-) SetToBag({r}))

\* session.query(Booking).filter(...).all()
query(rows, start, end) ==
    LET hit == {b \in BagToSet(rows) : query_filter(b, start, end)}
    IN  all([b \in hit |-> rows[b]])

\* (end_date - start_date).days + 1
days_in_range(start, end) == (end - start) + 1

\* ------------------------------------------------------ space utilization
\* capacity_guard letting a capacity of zero through
capacity_guard_or_equal(max_capacity_minutes) == max_capacity_minutes >= 0

\* the guard of the utilization ratio
capacity_guard(max_capacity_minutes) == max_capacity_minutes > 0

\* space_utilization over the capacity of one day
space_utilization_one_day(total_booked_minutes, max_capacity_minutes) ==
    IF capacity_guard(max_capacity_minutes)
    THEN round(total_booked_minutes * 1000, DAILY_OPERATING_MINUTES)
    ELSE 0

\* utilization of a space, in tenths of a percent
space_utilization(total_booked_minutes, max_capacity_minutes) ==
    IF capacity_guard(max_capacity_minutes)
    THEN round(total_booked_minutes * 1000, max_capacity_minutes)
    ELSE 0

\* space_entry summing the revenue of every booking
space_entry_all_revenue(space, bookings, days) ==
    LET space_bookings == SelectSeq(bookings, LAMBDA b : b.space = space)
        total_booked_minutes == sum(durations(space_bookings))
        max_capacity_minutes == DAILY_OPERATING_MINUTES * days
        space_revenue == sum(revenues(bookings))
    IN  [utilization |-> space_utilization(total_booked_minutes, max_capacity_minutes),
         booked_hours |-> round(total_booked_minutes * 10, 60),
         total_bookings |-> Len(space_bookings),
         revenue |-> round(space_revenue, 10)]

\* the body of the loop over Space: the entry of one space
space_entry(space, bookings, days) ==
    LET space_bookings == SelectSeq(bookings, LAMBDA b : b.space = space)
        total_booked_minutes == sum(durations(space_bookings))
        max_capacity_minutes == DAILY_OPERATING_MINUTES * days
        space_revenue == sum(revenues(space_bookings))
    IN  [utilization |-> space_utilization(total_booked_minutes, max_capacity_minutes),
         booked_hours |-> round(total_booked_minutes * 10, 60),
         total_bookings |-> Len(space_bookings),
         revenue |-> round(space_revenue, 10)]

\* for space in Space: space_data[space.value] = {...}, up to member i
RECURSIVE space_loop(_, _, _)
space_loop(i, bookings, days) ==
    IF i = 0 THEN [k \in {} |-> 0]
    ELSE (Space[i] :> space_entry(Space[i], bookings, days))
            @@ space_loop(i - 1, bookings, days)

\* space_data with an entry only for the spaces that have bookings
space_data_booked_only(bookings, days) ==
    [sp \in {bookings[i].space : i \in 1..Len(bookings)} |->
        space_loop(Len(Space), bookings, days)[sp]]

space_data(bookings, days) == space_loop(Len(Space), bookings, days)

\* ----------------------------------------------------------- daily revenue
\* day_entry taking the bookings up to the day
day_entry_cumulative(current_date, bookings) ==
    LET day_bookings == SelectSeq(bookings, LAMBDA b : b.booking_date <= current_date)
        day_revenue == sum(revenues(day_bookings))
    IN  [date |-> strftime_Ymd(current_date),
         day |-> strftime_a(current_date),
         revenue |-> round(day_revenue, 10),
         bookings |-> Len(day_bookings)]

\* the body of the while loop: the entry of one day
day_entry(current_date, bookings) ==
    LET day_bookings == SelectSeq(bookings, LAMBDA b : b.booking_date = current_date)
        day_revenue == sum(revenues(day_bookings))
    IN  [date |-> strftime_Ymd(current_date),
         day |-> strftime_a(current_date),
         revenue |-> round(day_revenue, 10),
         bookings |-> Len(day_bookings)]

\* daily_loop stopping before the end date
RECURSIVE daily_loop_exclusive(_, _, _)
daily_loop_exclusive(current_date, end, bookings) ==
    IF current_date < end
    THEN <<day_entry(current_date, bookings)>>
            \o daily_loop_exclusive(current_date + 1, end, bookings)
    ELSE <<>>

\* while current_date <= end_date: append; current_date += timedelta(days=1)
RECURSIVE daily_loop(_, _, _)
daily_loop(current_date, end, bookings) ==
    IF current_date <= end
    THEN <<day_entry(current_date, bookings)>>
            \o daily_loop(current_date + 1, end, bookings)
    ELSE <<>>

daily_revenue(start, end, bookings) == daily_loop(start, end, bookings)

\* ---------------------------------------------------- modality performance
\* the guards of the two shares
minutes_guard(total_booked_minutes) == total_booked_minutes > 0
revenue_guard(total_revenue) == total_revenue > 0

\* modality_utilization over the capacity of a day
modality_utilization_capacity(service_minutes, total_booked_minutes) ==
    IF minutes_guard(total_booked_minutes)
    THEN round(service_minutes * 1000, DAILY_OPERATING_MINUTES)
    ELSE 0

\* share of the booked time, in tenths of a percent
modality_utilization(service_minutes, total_booked_minutes) ==
    IF minutes_guard(total_booked_minutes)
    THEN round(service_minutes * 1000, total_booked_minutes)
    ELSE 0

\* share of the revenue, in tenths of a percent
modality_revenue_share(service_revenue, total_revenue) ==
    IF revenue_guard(total_revenue)
    THEN round(service_revenue * 1000, total_revenue)
    ELSE 0

\* the body of the loop over ServiceModality: the entry of one service
modality_entry(service, bookings, total_revenue, total_booked_minutes) ==
    LET service_bookings == SelectSeq(bookings, LAMBDA b : b.service = service)
        service_minutes == sum(durations(service_bookings))
        service_revenue == sum(revenues(service_bookings))
    IN  [bookings |-> Len(service_bookings),
         hours |-> round(service_minutes * 10, 60),
         revenue |-> round(service_revenue, 10),
         utilization |-> modality_utilization(service_minutes, total_booked_minutes),
         revenue_share |-> modality_revenue_share(service_revenue, total_revenue)]

\* for service in ServiceModality: modality_data[service.value] = {...}
RECURSIVE modality_loop(_, _, _, _)
modality_loop(i, bookings, total_revenue, total_booked_minutes) ==
    IF i = 0 THEN [k \in {} |-> 0]
    ELSE (ServiceModality[i] :>
                modality_entry(ServiceModality[i], bookings,
                               total_revenue, total_booked_minutes))
            @@ modality_loop(i - 1, bookings, total_revenue, total_booked_minutes)

modality_data(bookings, total_revenue, total_booked_minutes) ==
    modality_loop(Len(ServiceModality), bookings, total_revenue, total_booked_minutes)

\* ------------------------------------------------------------------ summary
\* the guard of the two per-day averages
days_guard(days) == days > 0

\* summary with avg_daily_revenue left undivided by the days
summary_avg_undivided(bookings, days, total_revenue, total_booked_minutes) ==
    [total_bookings |-> Len(bookings),
     total_revenue |-> round(total_revenue, 10),
     total_hours |-> round(total_booked_minutes * 10, 60),
     avg_daily_revenue |->
        IF days_guard(days) THEN round(total_revenue, 10) ELSE 0,
     avg_daily_bookings |->
        IF days_guard(days) THEN round(Len(bookings) * 10, days) ELSE 0]

summary(bookings, days, total_revenue, total_booked_minutes) ==
    [total_bookings |-> Len(bookings),
     total_revenue |-> round(total_revenue, 10),
     total_hours |-> round(total_booked_minutes * 10, 60),
     avg_daily_revenue |->
        IF days_guard(days) THEN round(total_revenue, 10 * days) ELSE 0,
     avg_daily_bookings |->
        IF days_guard(days) THEN round(Len(bookings) * 10, days) ELSE 0]

\* -------------------------------------------------------- get_dashboard_data
\* the dict get_dashboard_data returns when no division raises
dashboard_dict(bookings, start, end, total_revenue, total_booked_minutes) ==
    LET days == days_in_range(start, end)
    IN  [summary |-> summary(bookings, days, total_revenue, total_booked_minutes),
         space_utilization |-> space_data(bookings, days),
         daily_revenue |-> daily_revenue(start, end, bookings),
         modality_performance |->
            modality_data(bookings, total_revenue, total_booked_minutes),
         date_range |-> [start |-> strftime_Ymd(start),
                         end |-> strftime_Ymd(end),
                         days |-> days]]

\* a division of get_dashboard_data is reached with a zero divisor
\* (the divisions by the literal 60 cannot be)
ZeroDivisionError(days, total_revenue, total_booked_minutes) ==
    LET max_capacity_minutes == DAILY_OPERATING_MINUTES * days
    IN  \/ capacity_guard(max_capacity_minutes) /\ max_capacity_minutes = 0
        \/ minutes_guard(total_booked_minutes) /\ total_booked_minutes = 0
        \/ revenue_guard(total_revenue) /\ total_revenue = 0
        \/ days_guard(days) /\ days = 0

\* what a call returns: the dict, or the exception it raises
get_dashboard_data(rows, start, end) ==
    LET bookings == query(rows, start, end)
        total_revenue == sum(revenues(bookings))
        total_booked_minutes == sum(durations(bookings))
    IN  IF ZeroDivisionError(days_in_range(start, end), total_revenue,
                             total_booked_minutes)
        THEN [status_code |-> 500, body |-> "ZeroDivisionError"]
        ELSE [status_code |-> 200,
              body |-> dashboard_dict(bookings, start, end, total_revenue,
                                      total_booked_minutes)]

\* ------------------------------------------------------------------- state
\* The server runs one event loop and serves one request at a time: a handler
\* runs to its return, the response is sent, and the next request is taken.
VARIABLES
    table,       \* the rows of the bookings table, a bag of Booking
    request,     \* the request being served
    response     \* the response its handler returned, until it is sent

vars == <<table, request, response>>

\* no request is being served
no_request == [path |-> "none"]
no_response == [status_code |-> 0, body |-> "none"]
idle == request = no_request /\ response = no_response

\* a request to a page of the admin, and the redirect that answers it
admin_request == [path |-> "/admin/booking"]
admin_response == [status_code |-> 303, body |-> "/admin/booking/list"]

\* seed_sample_data fills an empty table with random rows at startup and the
\* admin creates and deletes rows, so every bag of rows is a table the
\* program can hold; the model starts from the empty one, with no request
\* being served
Init ==
    /\ table = EmptyBag
    /\ request = no_request
    /\ response = no_response

\* BookingView: the create form of the admin adds a row
create(b) ==
    /\ idle
    /\ BagCardinality(table) < MaxRows
    /\ table' = table (+) SetToBag({b})
    /\ request' = admin_request
    /\ response' = admin_response

\* BookingView: the edit form of the admin changes a row; the change
\* modelled is the one of the status column (any other change leaves the
\* table as a delete followed by a create does)
edit(old, status) ==
    /\ idle
    /\ BagIn(old, table)
    /\ status # old.status
    /\ table' = (table (-) SetToBag({old}))
                    (+) SetToBag({[old EXCEPT !.status = status]})
    /\ request' = admin_request
    /\ response' = admin_response

\* BookingView: the admin deletes a row
delete(b) ==
    /\ idle
    /\ BagIn(b, table)
    /\ table' = table (-) SetToBag({b})
    /\ request' = admin_request
    /\ response' = admin_response

\* dashboard_api with both query parameters given: JSONResponse of the
\* metrics of the range, or the error response of an exception
dashboard_api(start, end) ==
    /\ idle
    /\ request' = [path |-> "/api/dashboard", start_date |-> start, end_date |-> end]
    /\ response' = get_dashboard_data(table, start, end)
    /\ UNCHANGED table

\* the server sends the response and is ready for the next request
send_response ==
    /\ ~idle
    /\ request' = no_request
    /\ response' = no_response
    /\ UNCHANGED table

Next ==
    \/ \E b \in Booking : create(b)
    \/ \E old \in Booking, status \in InputStatuses : edit(old, status)
    \/ \E b \in Booking : delete(b)
    \/ \E start \in Dates, end \in Dates : dashboard_api(start, end)
    \/ send_response

Spec == Init /\ [][Next]_vars

\* ================================================================== claims
\* the latest request asked for the dashboard of [StartDate, EndDate]
Asked == request.path = "/api/dashboard"
StartDate == request.start_date
EndDate == request.end_date

\* it was answered with a report, Data
Ok == response.status_code = 200
Data == response.body

\* the rows of the table a report is about: not cancelled, dated in the range
Counted ==
    {b \in BagToSet(table) :
        /\ b.status # "Cancelled"
        /\ StartDate <= b.booking_date
        /\ b.booking_date <= EndDate}

\* revenue (mills), minutes and number of the rows of the table among S
RECURSIVE RevenueOf(_)
RevenueOf(S) ==
    IF S = {} THEN 0
    ELSE LET b == CHOOSE x \in S : TRUE
         IN  b.revenue * CopiesIn(b, table) + RevenueOf(S \ {b})

RECURSIVE MinutesOf(_)
MinutesOf(S) ==
    IF S = {} THEN 0
    ELSE LET b == CHOOSE x \in S : TRUE
         IN  b.duration_minutes * CopiesIn(b, table) + MinutesOf(S \ {b})

RECURSIVE NumberOf(_)
NumberOf(S) ==
    IF S = {} THEN 0
    ELSE LET b == CHOOSE x \in S : TRUE
         IN  CopiesIn(b, table) + NumberOf(S \ {b})

\* v is num / den rounded to the nearest integer (either one on a tie)
Nearest(v, num, den) ==
    /\ 2 * (v * den - num) <= den
    /\ 2 * (num - v * den) <= den

\* the sub-bag of the rows of the table that satisfy Keep
Only(Keep(_)) == [b \in {x \in BagToSet(table) : Keep(x)} |-> table[b]]

AllSpaces == {"Palace 1", "Palace 2"}
AllServices == {"Strength", "Pilates", "Yoga", "Physiotherapy", "Hyrox"}

\* sum of the revenue fields (cents) of the entries of a section
RECURSIVE EntryRevenue(_, _)
EntryRevenue(section, keys) ==
    IF keys = {} THEN 0
    ELSE LET k == CHOOSE x \in keys : TRUE
         IN  section[k].revenue + EntryRevenue(section, keys \ {k})

\* ---------------------------------------------------------------------- C1
\* C1: a Cancelled row contributes to no figure: the answer to a dashboard
\* request is the answer the table without its Cancelled rows gets, whatever
\* the revenue and duration of those rows.
C1_CancelledExcluded ==
    Asked =>
        response = get_dashboard_data(Only(LAMBDA b : b.status # "Cancelled"),
                                      StartDate, EndDate)

\* a report over a range that holds a Cancelled row with a revenue, beside a
\* counted row
C1_Witness ==
    /\ Asked /\ Ok
    /\ Counted # {}
    /\ \E b \in BagToSet(table) :
        /\ b.status = "Cancelled" /\ b.revenue > 0
        /\ StartDate <= b.booking_date /\ b.booking_date <= EndDate

\* ---------------------------------------------------------------------- C2
\* C2 as stated: for a non-empty table, summary.total_revenue equals the sum
\* of the revenue of the counted rows (to the two decimals the report
\* carries), and the sum of the revenue fields of space_utilization, and the
\* sum of those of modality_performance.
C2_Original ==
    (Asked /\ Ok /\ BagToSet(table) # {}) =>
        /\ Nearest(Data.summary.total_revenue, RevenueOf(Counted), 10)
        /\ Data.summary.total_revenue = EntryRevenue(Data.space_utilization, AllSpaces)
        /\ Data.summary.total_revenue = EntryRevenue(Data.modality_performance, AllServices)

\* C2 amended: summary.total_revenue is the sum of the revenue of the counted
\* rows rounded to two decimals; when every counted revenue is a whole
\* number of cents it is that sum exactly and equals both the sum of the
\* space_utilization revenues and the sum of the modality_performance ones
\* (each entry is rounded on its own, so amounts below a cent can make the
\* sums of the entries differ from the total).
C2_RevenueReconciles ==
    (Asked /\ Ok /\ BagToSet(table) # {}) =>
        /\ Nearest(Data.summary.total_revenue, RevenueOf(Counted), 10)
        /\ (\A b \in Counted : b.revenue % 10 = 0) =>
            /\ 10 * Data.summary.total_revenue = RevenueOf(Counted)
            /\ Data.summary.total_revenue = EntryRevenue(Data.space_utilization, AllSpaces)
            /\ Data.summary.total_revenue = EntryRevenue(Data.modality_performance, AllServices)

\* a report over counted rows of whole cents in both spaces
C2_Witness ==
    /\ Asked /\ Ok
    /\ \A b \in Counted : b.revenue % 10 = 0
    /\ \A sp \in AllSpaces : \E b \in Counted : b.space = sp /\ b.revenue > 0

\* ---------------------------------------------------------------------- C3
\* C3: space_utilization has exactly one entry per member of Space and
\* modality_performance one per member of ServiceModality; a member without
\* counted row has an all-zero entry, and with an empty table every count
\* and sum of the report is zero.
C3_EveryMemberReported ==
    (Asked /\ Ok) =>
        /\ DOMAIN Data.space_utilization = AllSpaces
        /\ DOMAIN Data.modality_performance = AllServices
        /\ \A sp \in AllSpaces :
            (\A b \in Counted : b.space # sp) =>
                Data.space_utilization[sp] =
                    [utilization |-> 0, booked_hours |-> 0,
                     total_bookings |-> 0, revenue |-> 0]
        /\ \A sv \in AllServices :
            (\A b \in Counted : b.service # sv) =>
                Data.modality_performance[sv] =
                    [bookings |-> 0, hours |-> 0, revenue |-> 0,
                     utilization |-> 0, revenue_share |-> 0]
        /\ BagToSet(table) = {} =>
            /\ Data.summary =
                [total_bookings |-> 0, total_revenue |-> 0, total_hours |-> 0,
                 avg_daily_revenue |-> 0, avg_daily_bookings |-> 0]
            /\ \A i \in 1..Len(Data.daily_revenue) :
                /\ Data.daily_revenue[i].revenue = 0
                /\ Data.daily_revenue[i].bookings = 0

\* a report in which one space has counted rows and the other has none
C3_Witness ==
    /\ Asked /\ Ok
    /\ \E b \in Counted : b.space = "Palace 2"
    /\ \A b \in Counted : b.space # "Palace 1"
    /\ Data.space_utilization["Palace 2"].total_bookings > 0

\* ---------------------------------------------------------------------- C4
\* the calendar from Epoch on, written out: Calendar[n + 1] is Epoch + n
Calendar ==
    <<<<2024, 2, 28>>, <<2024, 2, 29>>, <<2024, 3, 1>>, <<2024, 3, 2>>,
      <<2024, 3, 3>>, <<2024, 3, 4>>>>

\* date a is before date b
Before(a, b) ==
    \/ a[1] < b[1]
    \/ a[1] = b[1] /\ a[2] < b[2]
    \/ a[1] = b[1] /\ a[2] = b[2] /\ a[3] < b[3]

\* daily_revenue has one entry per day from StartDate to EndDate, in
\* strictly ascending order of date
OnePerDay ==
    /\ \A i \in 1..Len(Data.daily_revenue) :
        Data.daily_revenue[i].date = Calendar[StartDate + i]
    /\ \A i \in 1..(Len(Data.daily_revenue) - 1) :
        Before(Data.daily_revenue[i].date, Data.daily_revenue[i + 1].date)

\* C4 as stated: daily_revenue has exactly days_in_range entries, with
\* days_in_range = (end_date - start_date).days + 1 the value of
\* date_range.days, one per day of the range in strictly ascending order.
C4_Original ==
    (Asked /\ Ok) =>
        /\ Data.date_range.days = EndDate - StartDate + 1
        /\ Len(Data.daily_revenue) = Data.date_range.days
        /\ OnePerDay

\* C4 amended: date_range.days is (end_date - start_date).days + 1; when
\* start_date <= end_date, daily_revenue has exactly that many entries, one
\* per day of the range in strictly ascending order, without gap or
\* duplicate; when end_date < start_date it is empty (and date_range.days
\* is zero or negative).
C4_OneEntryPerDay ==
    (Asked /\ Ok) =>
        /\ Data.date_range.days = EndDate - StartDate + 1
        /\ StartDate <= EndDate =>
            /\ Len(Data.daily_revenue) = Data.date_range.days
            /\ OnePerDay
        /\ EndDate < StartDate => Data.daily_revenue = <<>>

\* a report over February 28 to March 1 with no counted row on February 29
C4_Witness ==
    /\ Asked /\ Ok
    /\ StartDate = 0 /\ EndDate = 2
    /\ Counted # {}
    /\ \A b \in Counted : b.booking_date # 1
    /\ Len(Data.daily_revenue) = 3

\* ---------------------------------------------------------------------- C5
\* C5: a row dated before start_date or after end_date is in no computation:
\* the answer is the answer the table restricted to the rows dated in
\* [start_date, end_date] gets.
C5_OutOfRangeExcluded ==
    Asked =>
        response =
            get_dashboard_data(
                Only(LAMBDA b : StartDate <= b.booking_date /\ b.booking_date <= EndDate),
                StartDate, EndDate)

\* a report over a range with a counted row, while the table also holds a
\* row, not cancelled and with a revenue, dated after the range
C5_Witness ==
    /\ Asked /\ Ok
    /\ Counted # {}
    /\ \E b \in BagToSet(table) :
        b.status # "Cancelled" /\ b.revenue > 0 /\ b.booking_date > EndDate

\* ---------------------------------------------------------------------- C6
\* C6: get_dashboard_data never divides by zero, whatever the two dates; for
\* end_date < start_date it returns a report whose date_range.days is <= 0
\* and whose per-day ratios (the utilization of each space, avg_daily_revenue
\* and avg_daily_bookings) are all 0.
C6_NoDivisionByZero ==
    Asked =>
        /\ Ok
        /\ EndDate < StartDate =>
            /\ Data.date_range.days <= 0
            /\ \A sp \in AllSpaces : Data.space_utilization[sp].utilization = 0
            /\ Data.summary.avg_daily_revenue = 0
            /\ Data.summary.avg_daily_bookings = 0

\* a request for a range of zero days (end_date the day before start_date)
\* on a table that holds a row that is not cancelled
C6_Witness ==
    /\ Asked /\ Ok
    /\ EndDate = StartDate - 1
    /\ \E b \in BagToSet(table) : b.status # "Cancelled"

\* ---------------------------------------------------------------------- C8
\* C8: the utilization of a space is 100 * booked_minutes / (840 * days) over
\* its counted rows, rounded to one decimal (60 minutes in one day: 7.1); it
\* is 0 when that capacity is 0 (or below), and it is never negative.
C8_SpaceUtilization ==
    (Asked /\ Ok) =>
        \A sp \in AllSpaces :
            LET u == Data.space_utilization[sp].utilization
                booked_minutes == MinutesOf({b \in Counted : b.space = sp})
                capacity == 840 * (EndDate - StartDate + 1)
            IN  /\ u >= 0
                /\ capacity > 0 => Nearest(u, 1000 * booked_minutes, capacity)
                /\ capacity <= 0 => u = 0

\* the scenario: one booking of 60 minutes in Palace 1, a range of one day,
\* utilization 7.1
C8_Witness ==
    /\ Asked /\ Ok
    /\ StartDate = EndDate
    /\ MinutesOf({b \in Counted : b.space = "Palace 1"}) = 60
    /\ Data.space_utilization["Palace 1"].utilization = 71

\* ---------------------------------------------------------------------- C9
\* C9: the utilization of a service is 100 * service_minutes / the minutes of
\* all counted rows (0 if there are none) and its revenue_share is 100 *
\* service_revenue / the revenue of all counted rows (0 if that is 0), each
\* to the one decimal the report carries: the divisor is the total over the services, not
\* the capacity, so a range whose counted rows are all of one service gives
\* it the utilization 100.0 whatever the length of the range.
C9_ModalityShares ==
    (Asked /\ Ok) =>
        /\ \A sv \in AllServices :
            LET e == Data.modality_performance[sv]
                mine == {b \in Counted : b.service = sv}
            IN  /\ MinutesOf(Counted) > 0 =>
                    Nearest(e.utilization, 1000 * MinutesOf(mine), MinutesOf(Counted))
                /\ MinutesOf(Counted) = 0 => e.utilization = 0
                /\ RevenueOf(Counted) > 0 =>
                    Nearest(e.revenue_share, 1000 * RevenueOf(mine), RevenueOf(Counted))
                /\ RevenueOf(Counted) = 0 => e.revenue_share = 0
        /\ \A sv \in AllServices :
            (Counted # {} /\ \A b \in Counted : b.service = sv) =>
                Data.modality_performance[sv].utilization = 1000

\* a report over several days whose counted rows are all Yoga, in number
\* more than one
C9_Witness ==
    /\ Asked /\ Ok
    /\ EndDate > StartDate
    /\ NumberOf(Counted) > 1
    /\ \A b \in Counted : b.service = "Yoga"
    /\ Data.modality_performance["Yoga"].utilization = 1000

\* --------------------------------------------------------------------- C10
\* the counted rows dated d
CountedOn(d) == {b \in Counted : b.booking_date = d}

\* C10: for every date d of the range, the entry of d has the sum of the
\* revenue of the counted rows dated d as revenue (to the two decimals every
\* currency figure of the report is rounded to) and their number as
\* bookings; both are 0 on a day without such a row.
C10_DailyFigures ==
    (Asked /\ Ok) =>
        \A d \in StartDate..EndDate :
            LET e == Data.daily_revenue[d - StartDate + 1]
            IN  /\ e.date = Calendar[d + 1]
                /\ Nearest(e.revenue, RevenueOf(CountedOn(d)), 10)
                /\ e.bookings = NumberOf(CountedOn(d))
                /\ CountedOn(d) = {} => e.revenue = 0 /\ e.bookings = 0

\* a report over three days with counted rows on the first and the last and
\* none on the second
C10_Witness ==
    /\ Asked /\ Ok
    /\ EndDate = StartDate + 2
    /\ CountedOn(StartDate) # {}
    /\ CountedOn(StartDate + 1) = {}
    /\ CountedOn(EndDate) # {}
    /\ Data.daily_revenue[2].bookings = 0
    /\ Data.daily_revenue[2].revenue = 0

\* --------------------------------------------------------------------- C11
\* C11: summary.total_bookings is the number of counted rows and
\* summary.total_hours their minutes / 60; when days_in_range > 0,
\* avg_daily_revenue is their revenue / days_in_range and avg_daily_bookings
\* their number / days_in_range, and both are 0 when days_in_range <= 0
\* (hours and avg_daily_bookings to the one decimal, avg_daily_revenue to
\* the two decimals, that the report carries).
C11_SummaryFigures ==
    (Asked /\ Ok) =>
        LET s == Data.summary
            days == EndDate - StartDate + 1
        IN  /\ s.total_bookings = NumberOf(Counted)
            /\ Nearest(s.total_hours, 10 * MinutesOf(Counted), 60)
            /\ days > 0 =>
                /\ Nearest(s.avg_daily_revenue, RevenueOf(Counted), 10 * days)
                /\ Nearest(s.avg_daily_bookings, 10 * NumberOf(Counted), days)
            /\ days <= 0 =>
                /\ s.avg_daily_revenue = 0
                /\ s.avg_daily_bookings = 0

\* a report over several days with two counted rows that carry a revenue:
\* the averages are positive and below the totals
C11_Witness ==
    /\ Asked /\ Ok
    /\ EndDate > StartDate
    /\ NumberOf(Counted) = 2
    /\ \A b \in Counted : b.revenue >= 1000
    /\ Data.summary.avg_daily_revenue > 0
    /\ Data.summary.avg_daily_revenue < Data.summary.total_revenue
    /\ Data.summary.avg_daily_bookings > 0

====
